---------------------------- MODULE Spec2Model ----------------------------
(***************************************************************************)
(* State machine of ImmersiveBridgeFlow                                    *)
(* (packages/web/components/bridge/immersive-bridge.tsx).                  *)
(*                                                                         *)
(* React state (isVisible, step, fiatRampParams), URL query state          *)
(* (direction = transferDirection, selectedAssetDenom = transferAsset),    *)
(* the leave transition of <Transition show={isVisible}>, and the error    *)
(* boundary around the flow body.  One action per handler; the setters a   *)
(* handler calls are committed together (one render), and useEffect is a   *)
(* step of its own that runs on the committed values.                      *)
(***************************************************************************)
EXTENDS Integers, Sequences, FiniteSets

(***************************************************************************)
(* Values                                                                  *)
(***************************************************************************)
\* null / undefined of a string-typed state
NULL == "<null>"

isNil(v) == v = NULL

\* enum ImmersiveBridgeScreen
Asset == "0"
Amount == "1"
Review == "2"

ImmersiveBridgeScreen == {Asset, Amount, Review}

\* Number(step) on the strings step can hold
Number(s) ==
  CASE s = "0" -> 0
    [] s = "1" -> 1
    [] s = "2" -> 2
    [] s = "-1" -> -1
    [] OTHER -> -2

\* (n).toString() on the numbers Number(step) - 1 can give
toString(n) ==
  CASE n = 0 -> "0"
    [] n = 1 -> "1"
    [] n = 2 -> "2"
    [] n = -1 -> "-1"
    [] OTHER -> "NaN"

\* BridgeTransactionDirection
Directions == {"deposit", "withdraw"}

\* number of asset denominations the model draws from
NumDenoms == 2

DenomNames == <<"ATOM", "USDC", "OSMO", "ION">>

Denoms == {DenomNames[i] : i \in 1..NumDenoms}

\* raw values of ?transferDirection= in the URL (NULL: key absent)
RawDirections == {NULL, "deposit", "withdraw", "bogus"}

\* raw values of ?transferAsset= in the URL (NULL: key absent)
RawAssets == {NULL} \cup Denoms

\* seeded fault: parse ignores the value
parseDirection_alwaysDeposit(value) ==
  IF value = NULL THEN NULL ELSE "deposit"

\* parse of transferDirection; nuqs does not call parse for an absent key
parseDirection(value) ==
  IF value = NULL THEN NULL
  ELSE IF value = "withdraw" THEN "withdraw" ELSE "deposit"

\* parse of transferAsset (a query value is a string); absent key: defaultValue
parseAsset(value) ==
  IF value = NULL THEN NULL ELSE value

\* what the query string holds for a state value (null removes the key)
serialize(v) == v

\* fiatRamp arguments
FiatRampKeys == {"moonpay", "transak"}

NoParams == [fiatRampKey |-> NULL, assetKey |-> NULL]

FiatRampParams == [fiatRampKey : FiatRampKeys, assetKey : {DenomNames[1]}]

\* no useEffect chain is followed longer than this
MaxEffectRuns == 4

(***************************************************************************)
(* State                                                                   *)
(***************************************************************************)
VARIABLES
  isVisible,                 \* useState(false)
  step,                      \* useState(ImmersiveBridgeScreen.Asset)
  direction,                 \* useQueryState("transferDirection")
  selectedAssetDenom,        \* useQueryState("transferAsset")
  fiatRampParams,            \* useState(null)
  isFiatOnrampSelectionOpen, \* useDisclosure().isOpen
  leaving,                   \* Transition: a leave is running, afterLeave is due
  hasError,                  \* ErrorBoundary shows its FallbackComponent
  \* ---- observation of the run (not read by any handler) ----
  last,                      \* the step taken last
  phase,                     \* what has happened since mount / close / bridgeAsset
  effectRuns,                \* useEffect runs since the last handler
  deepLink,                  \* the query this instance was mounted with
  bookmark,                  \* the state whose URL this instance was mounted from
  request                    \* arguments of the bridgeAsset call being followed

prog == <<isVisible, step, direction, selectedAssetDenom, fiatRampParams,
          isFiatOnrampSelectionOpen, leaving, hasError>>

obs == <<last, phase, effectRuns, deepLink, bookmark, request>>

vars == <<prog, obs>>

NoQuery == [transferDirection |-> NULL, transferAsset |-> NULL, set |-> FALSE]

NoBookmark ==
  [isVisible |-> FALSE, step |-> Asset, direction |-> NULL,
   selectedAssetDenom |-> NULL, settled |-> FALSE, set |-> FALSE]

NoRequest == [anyDenom |-> NULL, direction |-> NULL]

(***************************************************************************)
(* What is rendered                                                        *)
(***************************************************************************)
\* <Transition show={isVisible}> keeps its children mounted while shown and
\* until a running leave has ended
Mounted == isVisible \/ leaving

\* children of ErrorBoundary: the header row and the screens
BodyRendered == Mounted /\ ~hasError

\* FallbackComponent: GeneralErrorScreen
ErrorScreenRendered == Mounted /\ hasError

\* <Screen screenName={Asset}> with `direction ? <AssetSelectScreen/> : null`
AssetSelectScreenRendered ==
  BodyRendered /\ step = Asset /\ ~isNil(direction)

\* currentScreen !== Asset && direction && <AmountAndReviewScreen/>
AmountAndReviewScreenRendered ==
  BodyRendered /\ step # Asset /\ ~isNil(direction)

\* {!isNil(fiatRampParams) && <FiatRampsModal isOpen/>}
FiatRampsModalShown == fiatRampParams # NoParams

(***************************************************************************)
(* Setters                                                                 *)
(***************************************************************************)
\* setIsVisible: show going true -> false starts the leave transition
setIsVisible(v) ==
  /\ isVisible' = v
  /\ leaving' = (leaving \/ (isVisible /\ ~v))

setStep(s) == step' = s

setDirection(d) == direction' = d

setSelectedAssetDenom(a) == selectedAssetDenom' = a

setFiatRampParams(p) == fiatRampParams' = p

(***************************************************************************)
(* useEffect(..., [direction, selectedAssetDenom, isVisible, setDirection]) *)
(***************************************************************************)
\* seeded fault: the effect's first if is dropped
OpenOnDirection_never == FALSE

\* if (!isNil(direction) && !isVisible) setIsVisible(true)
OpenOnDirection == ~isNil(direction) /\ ~isVisible

\* if (isNil(direction) && isVisible) setDirection("deposit")
DefaultDirection == isNil(direction) /\ isVisible

\* if (!isNil(selectedAssetDenom) && !isVisible) { setIsVisible(true); setStep(Amount) }
OpenOnAsset == ~isNil(selectedAssetDenom) /\ ~isVisible

\* the effect has nothing to do on the committed values
Settled == ~OpenOnDirection /\ ~DefaultDirection /\ ~OpenOnAsset

\* seeded fault: the third if opens the flow but does not move to Amount
effectBody_noAmountStep ==
  /\ setIsVisible(IF OpenOnDirection \/ OpenOnAsset THEN TRUE ELSE isVisible)
  /\ setDirection(IF DefaultDirection THEN "deposit" ELSE direction)
  /\ setStep(step)
  /\ UNCHANGED <<selectedAssetDenom, fiatRampParams, isFiatOnrampSelectionOpen,
                 hasError>>

\* React runs the effects of a commit before it dispatches the next event:
\* a handler runs on a render whose effect has nothing left to do
EffectsFlushed == Settled

\* one run of the effect body: the three ifs read the same render's values
effectBody ==
  /\ setIsVisible(IF OpenOnDirection \/ OpenOnAsset THEN TRUE ELSE isVisible)
  /\ setDirection(IF DefaultDirection THEN "deposit" ELSE direction)
  /\ setStep(IF OpenOnAsset THEN Amount ELSE step)
  /\ UNCHANGED <<selectedAssetDenom, fiatRampParams, isFiatOnrampSelectionOpen,
                 hasError>>

(***************************************************************************)
(* Handlers: the state they write                                          *)
(***************************************************************************)
\* seeded fault: onClose forgets setDirection(null)
onClose_keepsDirection ==
  /\ setIsVisible(FALSE)
  /\ setDirection(direction)
  /\ setSelectedAssetDenom(NULL)
  /\ UNCHANGED <<step, fiatRampParams, isFiatOnrampSelectionOpen, hasError>>

\* seeded fault: onClose also calls setFiatRampParams(null)
onClose_clearsFiatRamp ==
  /\ setIsVisible(FALSE)
  /\ setDirection(NULL)
  /\ setSelectedAssetDenom(NULL)
  /\ setFiatRampParams(NoParams)
  /\ UNCHANGED <<step, isFiatOnrampSelectionOpen, hasError>>

onClose ==
  /\ setIsVisible(FALSE)
  /\ setDirection(NULL)
  /\ setSelectedAssetDenom(NULL)
  /\ UNCHANGED <<step, fiatRampParams, isFiatOnrampSelectionOpen, hasError>>

onOpen(d) ==
  /\ setIsVisible(TRUE)
  /\ setDirection(d)

startBridge(d) ==
  /\ onOpen(d)
  /\ UNCHANGED <<step, selectedAssetDenom, fiatRampParams,
                 isFiatOnrampSelectionOpen, hasError>>

bridgeAsset(anyDenom, d) ==
  /\ onOpen(d)
  /\ setStep(Amount)
  /\ setSelectedAssetDenom(anyDenom)
  /\ UNCHANGED <<fiatRampParams, isFiatOnrampSelectionOpen, hasError>>

fiatRamp(fiatRampKey, assetKey) ==
  /\ setFiatRampParams([fiatRampKey |-> fiatRampKey, assetKey |-> assetKey])
  /\ UNCHANGED <<isVisible, step, direction, selectedAssetDenom,
                 isFiatOnrampSelectionOpen, leaving, hasError>>

\* FiatRampsModal onRequestClose
fiatRampsRequestClose ==
  /\ setFiatRampParams(NoParams)
  /\ UNCHANGED <<isVisible, step, direction, selectedAssetDenom,
                 isFiatOnrampSelectionOpen, leaving, hasError>>

\* useDisclosure: onOpen / onClose of the fiat on-ramp selection modal
setFiatOnrampSelection(open) ==
  /\ isFiatOnrampSelectionOpen' = open
  /\ UNCHANGED <<isVisible, step, direction, selectedAssetDenom,
                 fiatRampParams, leaving, hasError>>

\* ScreenManager onChangeScreen={(screen) => setStep(screen)}
onChangeScreen(screen) == setStep(screen)

\* the boundary's error state goes with the subtree the ended leave unmounts
boundaryAfterLeave == IF isVisible THEN hasError ELSE FALSE

\* seeded fault: afterLeave forgets setStep(Asset)
afterLeave_keepsStep ==
  /\ setSelectedAssetDenom(NULL)
  /\ setStep(step)
  /\ leaving' = FALSE
  /\ hasError' = boundaryAfterLeave
  /\ UNCHANGED <<isVisible, direction, fiatRampParams, isFiatOnrampSelectionOpen>>

\* Transition afterLeave
afterLeave ==
  /\ setSelectedAssetDenom(NULL)
  /\ setStep(Asset)
  /\ leaving' = FALSE
  /\ hasError' = boundaryAfterLeave
  /\ UNCHANGED <<isVisible, direction, fiatRampParams, isFiatOnrampSelectionOpen>>

\* seeded fault: "Go Back" is rendered on every screen
goBackRendered_always == BodyRendered

\* "Go Back" is rendered unless step === Asset
goBackRendered == BodyRendered /\ step # Asset

\* "Go Back" onClick: setStep((Number(step) - 1).toString())
goBack ==
  /\ setStep(toString(Number(step) - 1))
  /\ UNCHANGED <<isVisible, direction, selectedAssetDenom, fiatRampParams,
                 isFiatOnrampSelectionOpen, leaving, hasError>>

\* seeded fault: the Amount label is clickable from every other screen
stepClickable_amountAlways(i) ==
  CASE i = 0 -> step # Asset
    [] i = 1 -> step # Amount
    [] OTHER -> FALSE

\* StepProgress steps[i].onClick is defined (0: asset, 1: amount, 2: review)
stepClickable(i) ==
  CASE i = 0 -> step # Asset
    [] i = 1 -> step = Review
    [] OTHER -> FALSE

\* the screen steps[i].onClick sets
stepTarget(i) == IF i = 0 THEN Asset ELSE Amount

\* StepProgress steps[i].onClick
stepClick(i) ==
  /\ setStep(stepTarget(i))
  /\ UNCHANGED <<isVisible, direction, selectedAssetDenom, fiatRampParams,
                 isFiatOnrampSelectionOpen, leaving, hasError>>

\* AssetSelectScreen onSelectAsset
onSelectAsset(coinDenom) ==
  /\ onChangeScreen(Amount)
  /\ setSelectedAssetDenom(coinDenom)
  /\ UNCHANGED <<isVisible, direction, fiatRampParams,
                 isFiatOnrampSelectionOpen, leaving, hasError>>

\* a fresh instance: useState initial values, query state parsed from the URL
mount(rawDirection, rawAsset) ==
  /\ isVisible' = FALSE
  /\ step' = Asset
  /\ direction' = parseDirection(rawDirection)
  /\ selectedAssetDenom' = parseAsset(rawAsset)
  /\ fiatRampParams' = NoParams
  /\ isFiatOnrampSelectionOpen' = FALSE
  /\ leaving' = FALSE
  /\ hasError' = FALSE

(***************************************************************************)
(* Observation                                                             *)
(***************************************************************************)
Observe(op, ph, rq) ==
  /\ last' = op
  /\ phase' = ph
  /\ effectRuns' = 0
  /\ deepLink' = NoQuery
  /\ bookmark' = NoBookmark
  /\ request' = rq

Handled(op) == Observe(op, "other", NoRequest)

(***************************************************************************)
(* Initial state and steps                                                 *)
(***************************************************************************)
Init ==
  \E rawDirection \in RawDirections, rawAsset \in RawAssets :
    /\ isVisible = FALSE
    /\ step = Asset
    /\ direction = parseDirection(rawDirection)
    /\ selectedAssetDenom = parseAsset(rawAsset)
    /\ fiatRampParams = NoParams
    /\ isFiatOnrampSelectionOpen = FALSE
    /\ leaving = FALSE
    /\ hasError = FALSE
    /\ last = "mount"
    /\ phase = "mount"
    /\ effectRuns = 0
    /\ deepLink = [transferDirection |-> rawDirection,
                   transferAsset |-> rawAsset, set |-> TRUE]
    /\ bookmark = NoBookmark
    /\ request = NoRequest

UseEffect ==
  /\ ~Settled
  /\ effectRuns < MaxEffectRuns
  /\ effectBody
  /\ last' = "useEffect"
  /\ effectRuns' = effectRuns + 1
  /\ UNCHANGED <<phase, deepLink, bookmark, request>>

EscapeKey ==
  /\ EffectsFlushed
  /\ onClose
  /\ Observe("onClose", "close", NoRequest)

CloseButton ==
  /\ EffectsFlushed
  /\ BodyRendered
  /\ onClose
  /\ Observe("onClose", "close", NoRequest)

AmountAndReviewScreenClose ==
  /\ EffectsFlushed
  /\ AmountAndReviewScreenRendered
  /\ onClose
  /\ Observe("onClose", "close", NoRequest)

GeneralErrorScreenClose ==
  /\ EffectsFlushed
  /\ ErrorScreenRendered
  /\ onClose
  /\ Observe("onClose", "closeErr", NoRequest)

StartBridge ==
  \E d \in Directions :
    /\ EffectsFlushed
    /\ startBridge(d)
    /\ Observe("startBridge",
               IF phase = "leftErr" THEN "reopenErr" ELSE "other", NoRequest)

BridgeAsset ==
  \E anyDenom \in Denoms, d \in Directions :
    /\ EffectsFlushed
    /\ bridgeAsset(anyDenom, d)
    /\ Observe("bridgeAsset", "bridge",
               [anyDenom |-> anyDenom, direction |-> d])

FiatRamp ==
  \E p \in FiatRampParams :
    /\ EffectsFlushed
    /\ fiatRamp(p.fiatRampKey, p.assetKey)
    /\ Handled("fiatRamp")

FiatRampsModalRequestClose ==
  /\ EffectsFlushed
  /\ FiatRampsModalShown
  /\ fiatRampsRequestClose
  /\ Handled("fiatRampsRequestClose")

FiatRampSelection ==
  /\ EffectsFlushed
  /\ setFiatOnrampSelection(TRUE)
  /\ Handled("fiatRampSelection")

FiatOnrampSelectionRequestClose ==
  /\ EffectsFlushed
  /\ isFiatOnrampSelectionOpen
  /\ setFiatOnrampSelection(FALSE)
  /\ Handled("fiatOnrampSelectionRequestClose")

AfterLeave ==
  /\ EffectsFlushed
  /\ leaving
  /\ afterLeave
  /\ last' = "afterLeave"
  /\ phase' = CASE phase = "close" -> "left"
                [] phase = "closeErr" -> "leftErr"
                [] phase = "bridge" -> "bridge"
                [] OTHER -> "other"
  /\ effectRuns' = 0
  /\ deepLink' = NoQuery
  /\ bookmark' = NoBookmark
  /\ UNCHANGED request

\* the flow was shown again while the leave ran.  The Transition either drops
\* the interrupted leave (this step: afterLeave is not called for it) or still
\* ends it (AfterLeave with isVisible true); the component guards against
\* neither, so both are steps of the model
LeaveCancelled ==
  /\ EffectsFlushed
  /\ leaving
  /\ isVisible
  /\ leaving' = FALSE
  /\ last' = "leaveCancelled"
  /\ effectRuns' = 0
  /\ UNCHANGED <<isVisible, step, direction, selectedAssetDenom, fiatRampParams,
                 isFiatOnrampSelectionOpen, hasError>>
  /\ UNCHANGED <<phase, deepLink, bookmark, request>>

GoBack ==
  /\ EffectsFlushed
  /\ goBackRendered
  /\ goBack
  /\ Handled("goBack")

StepClick ==
  \E i \in 0..2 :
    /\ EffectsFlushed
    /\ BodyRendered
    /\ stepClickable(i)
    /\ stepClick(i)
    /\ Handled("stepClick")

SelectAsset ==
  \E coinDenom \in Denoms :
    /\ EffectsFlushed
    /\ AssetSelectScreenRendered
    /\ onSelectAsset(coinDenom)
    /\ Handled("onSelectAsset")

\* AmountAndReviewScreen moves between its two screens through the screen manager
ChangeScreen ==
  \E screen \in {Amount, Review} :
    /\ EffectsFlushed
    /\ AmountAndReviewScreenRendered
    /\ onChangeScreen(screen)
    /\ UNCHANGED <<isVisible, direction, selectedAssetDenom, fiatRampParams,
                   isFiatOnrampSelectionOpen, leaving, hasError>>
    /\ Handled("onChangeScreen")

\* a screen throws while rendering and the ErrorBoundary catches it
RenderThrows ==
  /\ EffectsFlushed
  /\ BodyRendered
  /\ ~isNil(direction)
  /\ hasError' = TRUE
  /\ UNCHANGED <<isVisible, step, direction, selectedAssetDenom, fiatRampParams,
                 isFiatOnrampSelectionOpen, leaving>>
  /\ Handled("renderThrows")

\* the page is loaded again from the URL the query state was written to
Reload ==
  /\ EffectsFlushed
  /\ mount(serialize(direction), serialize(selectedAssetDenom))
  /\ last' = "mount"
  /\ phase' = "mount"
  /\ effectRuns' = 0
  /\ deepLink' = [transferDirection |-> serialize(direction),
                  transferAsset |-> serialize(selectedAssetDenom), set |-> TRUE]
  /\ bookmark' = [isVisible |-> isVisible, step |-> step,
                  direction |-> direction,
                  selectedAssetDenom |-> selectedAssetDenom,
                  settled |-> Settled, set |-> TRUE]
  /\ request' = NoRequest

Next ==
  \/ UseEffect
  \/ EscapeKey
  \/ CloseButton
  \/ AmountAndReviewScreenClose
  \/ GeneralErrorScreenClose
  \/ StartBridge
  \/ BridgeAsset
  \/ FiatRamp
  \/ FiatRampsModalRequestClose
  \/ FiatRampSelection
  \/ FiatOnrampSelectionRequestClose
  \/ AfterLeave
  \/ LeaveCancelled
  \/ GoBack
  \/ StepClick
  \/ SelectAsset
  \/ ChangeScreen
  \/ RenderThrows
  \/ Reload

Spec == Init /\ [][Next]_vars

(***************************************************************************)
(* Properties                                                              *)
(***************************************************************************)
ClosedPhases == {"close", "closeErr", "left", "leftErr"}

LeftPhases == {"left", "leftErr"}

RestoredFromVisible ==
  /\ phase = "mount"
  /\ bookmark.set /\ bookmark.settled /\ bookmark.isVisible
  /\ Settled

\* C2 as stated: a flow mounted from the URL of a settled visible state settles
\* on the same screen, direction and selected asset.
C2_SameScreenDirectionAsset ==
  RestoredFromVisible =>
    /\ step = bookmark.step
    /\ direction = bookmark.direction
    /\ selectedAssetDenom = bookmark.selectedAssetDenom

\* C2 amended: a flow mounted from the URL of a settled visible state settles
\* visible with the same direction and selected asset; the screen is Amount when
\* an asset is selected and Asset otherwise, whatever the screen was.
C2_SameDirectionAsset ==
  RestoredFromVisible =>
    /\ isVisible
    /\ direction = bookmark.direction
    /\ selectedAssetDenom = bookmark.selectedAssetDenom
    /\ step = (IF isNil(bookmark.selectedAssetDenom) THEN Asset ELSE Amount)

C2_Witness ==
  /\ RestoredFromVisible
  /\ bookmark.step = Review
  /\ bookmark.direction = "withdraw"
  /\ step = Amount

\* C3 as stated: onClose run while fiatRampParams is non-null leaves it null and
\* the FiatRampsModal hidden.
C3_CloseResetsFiatRamp ==
  [][(last' = "onClose" /\ FiatRampsModalShown) => ~FiatRampsModalShown']_vars

\* C3 amended: onClose leaves fiatRampParams as it is; a shown FiatRampsModal
\* is hidden only by its own onRequestClose (or by a fresh mount).
C3_CloseKeepsFiatRamp ==
  [][/\ last' = "onClose" => fiatRampParams' = fiatRampParams
     /\ (FiatRampsModalShown /\ ~FiatRampsModalShown') =>
          last' \in {"fiatRampsRequestClose", "mount"}]_vars

C3_Witness ==
  last = "onClose" /\ FiatRampsModalShown /\ ~isVisible

\* C4: step is always one of Asset, Amount, Review; Go Back is taken only off
\* the Asset screen and moves back by exactly one screen.
C4_ThreeScreens ==
  /\ [](step \in ImmersiveBridgeScreen)
  /\ [][last' = "goBack" =>
          (step # Asset /\ Number(step') = Number(step) - 1)]_vars

C4_Witness ==
  last = "goBack" /\ step = Asset

DeepLinkDirection ==
  IF deepLink.transferDirection = "withdraw" THEN "withdraw" ELSE "deposit"

\* C6: a flow mounted with transferAsset or transferDirection in the query settles
\* visible, on Amount with that asset when transferAsset is present and on Asset
\* otherwise, with direction "withdraw" only for the value "withdraw" and
\* "deposit" for any other or no value; it settles within two effect runs.
C6_DeepLink ==
  (/\ phase = "mount"
   /\ deepLink.set
   /\ deepLink.transferAsset # NULL \/ deepLink.transferDirection # NULL) =>
    /\ ~Settled => effectRuns < 2
    /\ Settled =>
         /\ isVisible
         /\ direction = DeepLinkDirection
         /\ deepLink.transferAsset # NULL =>
              step = Amount /\ selectedAssetDenom = deepLink.transferAsset
         /\ deepLink.transferAsset = NULL =>
              step = Asset /\ isNil(selectedAssetDenom)

C6_Witness ==
  /\ phase = "mount"
  /\ Settled
  /\ ~bookmark.set
  /\ deepLink.transferDirection = "bogus"
  /\ deepLink.transferAsset # NULL
  /\ step = Amount
  /\ direction = "deposit"

\* C7: every clickable step label leads to a smaller screen; Go Back and the
\* step labels only move step down; step moves up only through onChangeScreen,
\* or from Asset to Amount through onSelectAsset, bridgeAsset or the effect.
C7_HeaderGoesBack ==
  /\ [](\A i \in 0..2 :
          stepClickable(i) => Number(stepTarget(i)) < Number(step))
  /\ [][/\ last' \in {"goBack", "stepClick"} => Number(step') < Number(step)
        /\ Number(step') > Number(step) =>
             \/ last' = "onChangeScreen"
             \/ /\ last' \in {"onSelectAsset", "bridgeAsset", "useEffect"}
                /\ step = Asset
                /\ step' = Amount]_vars

C7_Witness ==
  last = "stepClick" /\ step = Amount

\* C8: after bridgeAsset({anyDenom, direction}), with no handler since, the
\* effect settled and no leave running, the flow is visible on Amount with
\* selectedAssetDenom = anyDenom and the given direction.
C8_BridgeAssetSettles ==
  (phase = "bridge" /\ Settled /\ ~leaving) =>
    /\ isVisible
    /\ step = Amount
    /\ selectedAssetDenom = request.anyDenom
    /\ direction = request.direction

\* C9: a flow visible on Amount or Review has a selected asset.
C9_AssetOnAmountAndReview ==
  (isVisible /\ step # Asset) => ~isNil(selectedAssetDenom)

\* C10: where the effect has nothing to do, isVisible holds exactly when
\* direction is non-null and a hidden flow has no selected asset; the effect
\* never runs more than twice in a row.
C10_EffectFixpoint ==
  /\ Settled =>
       /\ isVisible <=> ~isNil(direction)
       /\ ~isVisible => isNil(selectedAssetDenom)
  /\ effectRuns <= 2

C10_Witness ==
  effectRuns = 2 /\ Settled /\ isVisible /\ direction = "deposit"

=============================================================================
